---- MODULE Spec2Model ----
(***************************************************************************)
(* Model of src/wolf3d_main.py: the grid walkability test, the sampled     *)
(* line-of-sight test, enemy pursuit, hit-scan shooting, the ray march and *)
(* the game loop that orders them.                                         *)
(*                                                                         *)
(* Python floats are modelled in fixed point: world coordinates in units   *)
(* of 1/PosScale, angles and the values of sin/cos in units of 1/AngScale. *)
(* math.sin, math.cos, math.atan2 and math.hypot are computed (Taylor      *)
(* series after range reduction, integer square root), not tabulated.      *)
(***************************************************************************)
EXTENDS Integers, Sequences, FiniteSets, TLC

\* ------------------------------------------------------------------ bounds
MaxTick == 3           \* loop iterations explored with one key set held
GridSide == 2          \* side of the small grids can_move is tried on

\* ------------------------------------------------------- number formats
PosScale == 50         \* fixed-point units per world unit
AngScale == 10000      \* fixed-point units per radian (and per 1.0 of sin/cos)
PI == 31416            \* math.pi * AngScale
TWO_PI == 2 * PI
HALF_PI == PI \div 2
QUARTER_PI == PI \div 4

\* ------------------------------------------------------------- constants
SCREEN_WIDTH == 1366
MAP_WIDTH == 8
TILE_SIZE == 64
FOV == PI \div 3
NUM_RAYS == 240
MAX_DEPTH == 800
SCALE == SCREEN_WIDTH \div NUM_RAYS
player_speed == 2
DepthStep == 4          \* range(0, MAX_DEPTH, 4)
TurnRate == 300        \* 0.03 rad a loop iteration
HitAngle == 1000       \* 0.1 rad
HitRange == 300

RingMap ==
  << <<1,1,1,1,1,1,1,1>>,
     <<1,0,0,0,0,0,0,1>>,
     <<1,0,1,0,1,0,0,1>>,
     <<1,0,1,0,1,0,0,1>>,
     <<1,0,0,0,0,0,0,1>>,
     <<1,0,1,1,1,1,0,1>>,
     <<1,0,0,0,0,0,0,1>>,
     <<1,1,1,1,1,1,1,1>> >>

Tile == TILE_SIZE * PosScale          \* one tile edge in fixed-point units

\* ------------------------------------------------------------ arithmetic
Abs(a) == IF a >= 0 THEN a ELSE -a

\* a / b rounded to the nearest integer (b > 0): a float quotient kept at
\* the resolution of the fixed-point format
Round(a, b) == (2 * a + b) \div (2 * b)

\* int(a / b): Python's int() truncates toward zero (b > 0)
IntDiv(a, b) == IF a >= 0 THEN a \div b ELSE -((-a) \div b)

RECURSIVE IsqrtBetween(_, _, _)
IsqrtBetween(n, lo, hi) ==
  IF lo >= hi THEN lo
  ELSE LET mid == (lo + hi + 1) \div 2
       IN  IF mid * mid <= n THEN IsqrtBetween(n, mid, hi)
                             ELSE IsqrtBetween(n, lo, mid - 1)

\* math.hypot(dx, dy)
Hypot(dx, dy) == IsqrtBetween(dx * dx + dy * dy, 0, 46340)

\* sin on [0, pi/2], Taylor series to x^9
SinQ(x) ==
  LET x2 == (x * x) \div AngScale
      t3 == (x * x2) \div (6 * AngScale)
      t5 == (t3 * x2) \div (20 * AngScale)
      t7 == (t5 * x2) \div (42 * AngScale)
      t9 == (t7 * x2) \div (72 * AngScale)
  IN  x - t3 + t5 - t7 + t9

\* math.sin(a)
Sin(a) ==
  LET m == a % TWO_PI
  IN  IF m <= HALF_PI THEN SinQ(m)
      ELSE IF m <= PI THEN SinQ(PI - m)
      ELSE IF m <= PI + HALF_PI THEN -SinQ(m - PI)
      ELSE -SinQ(TWO_PI - m)

\* math.cos(a)
Cos(a) == Sin(a + HALF_PI)

\* atan on [0, tan(pi/8)], Taylor series to z^9
AtanT(z) ==
  LET z2 == (z * z) \div AngScale
      t3 == (z * z2) \div AngScale
      t5 == (t3 * z2) \div AngScale
      t7 == (t5 * z2) \div AngScale
      t9 == (t7 * z2) \div AngScale
  IN  z - (t3 \div 3) + (t5 \div 5) - (t7 \div 7) + (t9 \div 9)

\* atan on [0, 1]: atan(r) = pi/4 - atan((1 - r) / (1 + r)) above tan(pi/8)
Atan01(r) ==
  IF r <= 4142 THEN AtanT(r)
  ELSE QUARTER_PI - AtanT(((AngScale - r) * AngScale) \div (AngScale + r))

\* math.atan2(y, x), in [-pi, pi]
Atan2(y, x) ==
  LET ax == Abs(x)
      ay == Abs(y)
      t  == IF ax >= ay THEN Atan01((ay * AngScale) \div ax)
                        ELSE HALF_PI - Atan01((ax * AngScale) \div ay)
      r  == IF x >= 0 THEN t ELSE PI - t
  IN  IF ax = 0 /\ ay = 0 THEN 0
      ELSE IF y >= 0 THEN r ELSE -r


\* ----------------------------------------------------------------- state
VARIABLES
  game_map,       \* the grid, rows of 0 (empty) / 1 (wall); never written
  player_pos,     \* <<x, y>>
  player_angle,   \* heading, unnormalised
  enemies,        \* roster: sequence of [x, y, alive]
  schedule,       \* the keyboard: what will be held, for how many iterations
  keys,           \* the key snapshot of the current loop iteration
  pc,             \* position in the game loop
  ray,            \* ray_casting: index of the next ray
  eidx,           \* enemy loop: index of the current enemy
  cmds,           \* what the screen received in the current iteration:
                  \* [kind, idx], idx the left edge of a wall rectangle or
                  \* the roster place of a sprite
  steps,          \* which steps of the loop ran in the current iteration
  lastRead,       \* the most recent read of game_map by a move or a march
  query,          \* a call of can_move on its own: arguments and answer
  tick            \* completed loop iterations

vars == << game_map, player_pos, player_angle, enemies, schedule, keys, pc,
           ray, eidx, cmds, steps, lastRead, query, tick >>

KeyNames == {"a", "d", "w", "s", "space"}

NoRead == [by |-> "none", i |-> 0, j |-> 0, guarded |-> TRUE]

NoQuery == [x |-> 0, y |-> 0, asked |-> FALSE, answer |-> FALSE]

\* -------------------------------------------------------------- game map
\* seq[k] with Python's list indexing: a negative k counts from the end
PyItem(seq, k) == IF k >= 0 THEN seq[k + 1] ELSE seq[Len(seq) + k + 1]

\* does seq[k] raise IndexError
PyIndexError(seq, k) == k >= Len(seq) \/ k < -Len(seq)

\* the cell indices can_move, move_toward_player and ray_casting compute
CellOf(p) == [i |-> IntDiv(p[1], Tile), j |-> IntDiv(p[2], Tile)]

\* can_move(x, y) for p = <<x, y>>: the position is inside an empty map tile
CanMoveAt[p \in Int \X Int] ==
  LET i == IntDiv(p[1], Tile)
      j == IntDiv(p[2], Tile)
  IN  IF 0 <= i /\ i < Len(game_map[1]) /\ 0 <= j /\ j < Len(game_map)
      THEN game_map[j + 1][i + 1] = 0
      ELSE FALSE

can_move(x, y) == CanMoveAt[<<x, y>>]

\* ------------------------------------------------------ line of sight
\* the sampling loop of line_of_sight from s = <<px, py, dx, dy, steps, step>>
SightFrom[s \in Int \X Int \X Int \X Int \X Int \X Int] ==
  IF s[6] >= s[5] THEN TRUE
  ELSE IF ~can_move(s[1] + Round(s[3] * s[6], s[5]),
                    s[2] + Round(s[4] * s[6], s[5]))
       THEN FALSE
       ELSE SightFrom[<<s[1], s[2], s[3], s[4], s[5], s[6] + 1>>]

\* line_of_sight(px, py, ex, ey): no sampled point between them is blocked
line_of_sight(px, py, ex, ey) ==
  SightFrom[<<px, py, ex - px, ey - py,
              IntDiv(Hypot(ex - px, ey - py), 4 * PosScale), 1>>]

\* ---------------------------------------------------------------- Enemy
\* Enemy.distance_to_player
distance_to_player(e) == Hypot(player_pos[1] - e.x, player_pos[2] - e.y)

\* a step of len/2 world units in direction angle
HalfStep[angle \in Int] ==
  << Round(PosScale * Cos(angle), 2 * AngScale),
     Round(PosScale * Sin(angle), 2 * AngScale) >>

\* the position move_toward_player tries: 0.5 units toward the player
PursueCandidate(e) ==
  LET d == HalfStep[Atan2(player_pos[2] - e.y, player_pos[1] - e.x)]
  IN  << e.x + d[1], e.y + d[2] >>

\* a pursuit test that forgets the cell's content
PursueInBounds(c) ==
  LET i == IntDiv(c[1], Tile)
      j == IntDiv(c[2], Tile)
  IN  /\ 0 <= i /\ i < Len(game_map[1])
      /\ 0 <= j /\ j < Len(game_map)

\* the test of move_toward_player, written out in the method
PursueOpen(c) ==
  LET i == IntDiv(c[1], Tile)
      j == IntDiv(c[2], Tile)
  IN  /\ 0 <= i /\ i < Len(game_map[1])
      /\ 0 <= j /\ j < Len(game_map)
      /\ game_map[j + 1][i + 1] = 0

\* a pursuit that slides along x when the candidate is refused
move_or_slide(e) ==
  LET c == PursueCandidate(e)
  IN  IF PursueInBounds(c) /\ can_move(c[1], c[2])
      THEN [e EXCEPT !.x = c[1], !.y = c[2]]
      ELSE IF can_move(c[1], e.y) THEN [e EXCEPT !.x = c[1]] ELSE e

\* Enemy.move_toward_player
move_toward_player(e) ==
  LET c == PursueCandidate(e)
  IN  IF PursueOpen(c) THEN [e EXCEPT !.x = c[1], !.y = c[2]] ELSE e

\* the on-screen test of Enemy.draw
InView(e) ==
  LET angle == Atan2(e.y - player_pos[2], e.x - player_pos[1]) - player_angle
  IN  -(FOV \div 2) < angle /\ angle < FOV \div 2

\* a draw that forgets the alive flag
DrawsSpriteOfAny(e) ==
  /\ line_of_sight(player_pos[1], player_pos[2], e.x, e.y)
  /\ InView(e)

\* Enemy.draw: is a rectangle drawn for e
DrawsSprite(e) ==
  /\ e.alive
  /\ line_of_sight(player_pos[1], player_pos[2], e.x, e.y)
  /\ InView(e)

\* ---------------------------------------------------------- ray casting
\* the outcome of reading game_map[j][i] for c = <<i, j>>
GridAt[c \in Int \X Int] ==
  IF PyIndexError(game_map, c[2]) \/ PyIndexError(PyItem(game_map, c[2]), c[1])
  THEN "IndexError"
  ELSE IF PyItem(PyItem(game_map, c[2]), c[1]) = 1 THEN "wall" ELSE "empty"

\* one ray's depth loop from s = <<x, y, cos_a, sin_a, depth>>: the first
\* sample whose cell is a wall
March[s \in Int \X Int \X Int \X Int \X Int] ==
  LET x == s[1] + Round(s[5] * PosScale * s[3], AngScale)
      y == s[2] + Round(s[5] * PosScale * s[4], AngScale)
      v == GridAt[<<IntDiv(x, Tile), IntDiv(y, Tile)>>]
  IN  IF v = "empty" /\ s[5] + DepthStep < MAX_DEPTH
      THEN March[<<s[1], s[2], s[3], s[4], s[5] + DepthStep>>]
      ELSE [kind |-> IF v = "empty" THEN "none" ELSE v, depth |-> s[5],
            i |-> IntDiv(x, Tile), j |-> IntDiv(y, Tile)]

\* the body of ray_casting's loop for ray r
CastRay(pos, angle, r) ==
  LET cur_angle == (angle - FOV \div 2) + Round(r * FOV, NUM_RAYS)
  IN  March[<<pos[1], pos[2], Cos(cur_angle), Sin(cur_angle), 0>>]

\* rectangles laid out from the right edge
ColumnMirrored(r) == (NUM_RAYS - 1 - r) * SCALE

\* the left edge of ray r's rectangle: ray * SCALE
Column(r) == r * SCALE

\* ------------------------------------------------------------- keyboard
\* one key set held down for MaxTick iterations
HeldSchedules ==
  { << [keys |-> ks, ticks |-> MaxTick] >> : ks \in SUBSET KeyNames }

\* shoot enemy 1 through the wall, then walk round until its place is in view
CorpseTour ==
  << [keys |-> {"d", "w", "space"}, ticks |-> 26],
     [keys |-> {"d", "s"}, ticks |-> 15],
     [keys |-> {"d", "w"}, ticks |-> 45],
     [keys |-> {"a", "w"}, ticks |-> 62] >>

\* back down the west corridor into the south row until both enemies are in
\* view
SightTour ==
  << [keys |-> {"a", "w"}, ticks |-> 10],
     [keys |-> {"a", "s"}, ticks |-> 50],
     [keys |-> {"s"}, ticks |-> 115],
     [keys |-> {"d", "s"}, ticks |-> 130],
     [keys |-> {"a", "s"}, ticks |-> 52] >>

Schedules == HeldSchedules \cup {CorpseTour}

\* ------------------------------------------------------------------ Init
Roster ==
  << [x |-> 5 * Tile, y |-> 5 * Tile, alive |-> TRUE],
     [x |-> 3 * Tile, y |-> 6 * Tile, alive |-> TRUE] >>

Start ==
  /\ player_pos = << (TILE_SIZE + TILE_SIZE \div 2) * PosScale,
                     (TILE_SIZE + TILE_SIZE \div 2) * PosScale >>
  /\ player_angle = 0
  /\ enemies = Roster
  /\ keys = {}
  /\ ray = 0
  /\ eidx = 1
  /\ cmds = << >>
  /\ steps = << >>
  /\ lastRead = NoRead
  /\ tick = 0

Init ==
  /\ Start
  /\ game_map = RingMap
  /\ schedule \in Schedules
  /\ query = NoQuery
  /\ pc = "keys"

\* ----------------------------------------------------------- game loop
\* pygame.event.get() without QUIT, then pygame.key.get_pressed()
GetPressed ==
  /\ pc = "keys"
  /\ schedule # << >>
  /\ keys' = Head(schedule).keys
  /\ schedule' = IF Head(schedule).ticks > 1
                 THEN << [Head(schedule) EXCEPT !.ticks = @ - 1] >>
                      \o Tail(schedule)
                 ELSE Tail(schedule)
  /\ pc' = "movement"
  /\ cmds' = << >>
  /\ steps' = << >>
  /\ UNCHANGED << game_map, player_pos, player_angle, enemies, ray, eidx,
                  lastRead, query, tick >>

\* pygame.QUIT: pygame.quit(); sys.exit()
Quit ==
  /\ pc = "keys"
  /\ pc' = "exited"
  /\ UNCHANGED << game_map, player_pos, player_angle, enemies, schedule, keys,
                  ray, eidx, cmds, steps, lastRead, query, tick >>

\* the heading after the a / d keys
Turned(angle, ks) ==
  LET a1 == IF "a" \in ks THEN angle - TurnRate ELSE angle
  IN  IF "d" \in ks THEN a1 + TurnRate ELSE a1

\* player_speed world units in direction angle
Stride[angle \in Int] ==
  << Round(player_speed * PosScale * Cos(angle), AngScale),
     Round(player_speed * PosScale * Sin(angle), AngScale) >>

\* the candidate of a forward (sign 1) or backward (sign -1) move
MoveCandidate(pos, angle, sign) ==
  << pos[1] + sign * Stride[angle][1], pos[2] + sign * Stride[angle][2] >>

\* a move that is committed without asking can_move
MovedUnchecked(pos, angle, sign) == MoveCandidate(pos, angle, sign)

\* the committed position of one move: the candidate if can_move
Moved(pos, angle, sign) ==
  LET c == MoveCandidate(pos, angle, sign)
  IN  IF can_move(c[1], c[2]) THEN c ELSE pos

\* the position after the w and then the s key
Walked(pos, angle, ks) ==
  LET p1 == IF "w" \in ks THEN Moved(pos, angle, 1) ELSE pos
  IN  IF "s" \in ks THEN Moved(p1, angle, -1) ELSE p1

\* the cell of the last candidate can_move was asked about
LastCandidate(pos, angle, ks) ==
  IF "s" \in ks
  THEN MoveCandidate(IF "w" \in ks THEN Moved(pos, angle, 1) ELSE pos,
                     angle, -1)
  ELSE MoveCandidate(pos, angle, 1)

\* lines 134-155: rotation, then forward, then backward
Movement ==
  /\ pc = "movement"
  /\ player_angle' = Turned(player_angle, keys)
  /\ player_pos' = Walked(player_pos, player_angle', keys)
  /\ lastRead' =
       IF keys \cap {"w", "s"} = {} THEN lastRead
       ELSE LET c == CellOf(LastCandidate(player_pos, player_angle', keys))
            IN  IF 0 <= c.i /\ c.i < Len(game_map[1])
                   /\ 0 <= c.j /\ c.j < Len(game_map)
                THEN [by |-> "can_move", i |-> c.i, j |-> c.j,
                      guarded |-> TRUE]
                ELSE lastRead
  /\ steps' = Append(steps, <<"player", 0>>)
  /\ pc' = "shooting"
  /\ UNCHANGED << game_map, enemies, schedule, keys, ray, eidx, cmds, query,
                  tick >>

\* a hit test that also asks for a clear line of sight
HitInSight(e) ==
  LET angle == Atan2(e.y - player_pos[2], e.x - player_pos[1])
      angle_diff == Abs(((angle - player_angle + PI) % TWO_PI) - PI)
  IN  /\ angle_diff < HitAngle
      /\ distance_to_player(e) < HitRange * PosScale
      /\ line_of_sight(player_pos[1], player_pos[2], e.x, e.y)

\* the test of the shooting loop for one enemy
Hit(e) ==
  LET angle == Atan2(e.y - player_pos[2], e.x - player_pos[1])
      angle_diff == Abs(((angle - player_angle + PI) % TWO_PI) - PI)
  IN  angle_diff < HitAngle /\ distance_to_player(e) < HitRange * PosScale

\* lines 157-166
Shooting ==
  /\ pc = "shooting"
  /\ enemies' =
       IF "space" \in keys
       THEN [n \in 1..Len(enemies) |->
               IF enemies[n].alive /\ Hit(enemies[n])
               THEN [enemies[n] EXCEPT !.alive = FALSE]
               ELSE enemies[n]]
       ELSE enemies
  /\ steps' = Append(steps, <<"combat", 0>>)
  /\ pc' = "fill"
  /\ UNCHANGED << game_map, player_pos, player_angle, schedule, keys, ray,
                  eidx, cmds, lastRead, query, tick >>

\* a loop body that goes to the rays without clearing the screen
FillLeftOut ==
  /\ pc = "fill"
  /\ ray' = 0
  /\ pc' = "ray_casting"
  /\ UNCHANGED << game_map, player_pos, player_angle, enemies, schedule, keys,
                  eidx, cmds, steps, lastRead, query, tick >>

\* line 168: screen.fill
Fill ==
  /\ pc = "fill"
  /\ cmds' = Append(cmds, [kind |-> "clear", idx |-> 0])
  /\ steps' = Append(steps, <<"clear", 0>>)
  /\ ray' = 0
  /\ pc' = "ray_casting"
  /\ UNCHANGED << game_map, player_pos, player_angle, enemies, schedule, keys,
                  eidx, lastRead, query, tick >>

\* lines 108-125: one iteration of ray_casting's loop over the rays
RayCast ==
  /\ pc = "ray_casting"
  /\ \E m \in {CastRay(player_pos, player_angle, ray)} :
       /\ lastRead' = [by |-> "ray_casting", i |-> m.i, j |-> m.j,
                       guarded |-> FALSE]
       /\ cmds' = IF m.kind = "wall"
                  THEN Append(cmds, [kind |-> "wall", idx |-> Column(ray)])
                  ELSE cmds
       /\ IF m.kind = "IndexError"
          THEN pc' = "IndexError" /\ ray' = ray /\ eidx' = eidx
          ELSE IF ray + 1 < NUM_RAYS
          THEN pc' = "ray_casting" /\ ray' = ray + 1 /\ eidx' = eidx
          ELSE pc' = "enemy_move" /\ ray' = 0 /\ eidx' = 1
  /\ steps' = IF ray = 0 THEN Append(steps, <<"raycast", 0>>) ELSE steps
  /\ UNCHANGED << game_map, player_pos, player_angle, enemies, schedule, keys,
                  query, tick >>

\* lines 172-173: move_toward_player for the current enemy, if alive
EnemyMove ==
  /\ pc = "enemy_move"
  /\ \E e \in {enemies[eidx]} :
       /\ enemies' = IF e.alive
                     THEN [enemies EXCEPT ![eidx] = move_toward_player(e)]
                     ELSE enemies
       /\ steps' = IF e.alive THEN Append(steps, <<"advance", eidx>>)
                              ELSE steps
       /\ \E c \in {CellOf(PursueCandidate(e))} :
            lastRead' =
              IF e.alive /\ 0 <= c.i /\ c.i < Len(game_map[1])
                         /\ 0 <= c.j /\ c.j < Len(game_map)
              THEN [by |-> "move_toward_player", i |-> c.i, j |-> c.j,
                    guarded |-> TRUE]
              ELSE lastRead
  /\ pc' = "enemy_draw"
  /\ UNCHANGED << game_map, player_pos, player_angle, schedule, keys, ray,
                  eidx, cmds, query, tick >>

\* line 174: enemy.draw(screen)
EnemyDraw ==
  /\ pc = "enemy_draw"
  /\ cmds' = IF DrawsSprite(enemies[eidx])
             THEN Append(cmds, [kind |-> "sprite", idx |-> eidx])
             ELSE cmds
  /\ steps' = Append(steps, <<"project", eidx>>)
  /\ IF eidx < Len(enemies)
     THEN eidx' = eidx + 1 /\ pc' = "enemy_move"
     ELSE eidx' = 1 /\ pc' = "flip"
  /\ UNCHANGED << game_map, player_pos, player_angle, enemies, schedule, keys,
                  ray, lastRead, query, tick >>

\* lines 176-177: pygame.display.flip(); clock.tick(60)
Flip ==
  /\ pc = "flip"
  /\ cmds' = Append(cmds, [kind |-> "flip", idx |-> 0])
  /\ steps' = Append(steps, <<"present", 0>>)
  /\ tick' = tick + 1
  /\ pc' = "keys"
  /\ UNCHANGED << game_map, player_pos, player_angle, enemies, schedule, keys,
                  ray, eidx, lastRead, query >>

Next ==
  \/ GetPressed
  \/ Quit
  \/ Movement
  \/ Shooting
  \/ Fill
  \/ RayCast
  \/ EnemyMove
  \/ EnemyDraw
  \/ Flip

Spec == Init /\ [][Next]_vars

\* the same loop under the keyboard of SightTour
InitSight ==
  /\ Start
  /\ game_map = RingMap
  /\ schedule = SightTour
  /\ query = NoQuery
  /\ pc = "keys"

SpecSight == InitSight /\ [][Next]_vars

\* ------------------------------------------------- can_move on its own
\* every GridSide x GridSide grid, and the map of the game
TestGrids ==
  [1..GridSide -> [1..GridSide -> {0, 1}]] \cup {RingMap}

\* coordinates around the edges of those grids
TestCoords ==
  { -Tile - 1, -Tile, -1, 0, 1, Tile - 1, Tile, GridSide * Tile - 1,
    GridSide * Tile, MAP_WIDTH * Tile - 1, MAP_WIDTH * Tile,
    MAP_WIDTH * Tile + 1 }

InitWalk ==
  /\ Start
  /\ game_map \in TestGrids
  /\ schedule = << >>
  /\ query \in [x : TestCoords, y : TestCoords, asked : {FALSE},
                answer : {FALSE}]
  /\ pc = "query"

\* a call can_move(query.x, query.y)
Ask ==
  /\ pc = "query"
  /\ query' = [query EXCEPT !.asked = TRUE,
                            !.answer = can_move(query.x, query.y)]
  /\ pc' = "answered"
  /\ UNCHANGED << game_map, player_pos, player_angle, enemies, schedule, keys,
                  ray, eidx, cmds, steps, lastRead, tick >>

NextWalk == Ask

SpecWalk == InitWalk /\ [][NextWalk]_vars

\* ================================================================ claims
Width == Len(game_map[1]) * Tile
Height == Len(game_map) * Tile

\* the point lies outside the grid
Outside(x, y) == x < 0 \/ y < 0 \/ x >= Width \/ y >= Height

\* the point lies in a cell of the grid that is Empty, the cell being
\* <<floor(x / tileSize), floor(y / tileSize)>>
InEmptyCell(x, y) ==
  /\ ~Outside(x, y)
  /\ game_map[(y \div Tile) + 1][(x \div Tile) + 1] = 0

\* C1: can_move answers false for every point outside the grid, whatever the
\* grid holds; a coordinate in (-tileSize, 0) is outside.
C1_OutsideIsNotWalkable ==
  (query.asked /\ Outside(query.x, query.y)) => ~query.answer

\* ---------------------------------------------------------------- C2
DeadStays ==
  \A n \in 1..Len(enemies) :
    ~enemies[n].alive =>
      /\ ~enemies'[n].alive
      /\ enemies'[n].x = enemies[n].x
      /\ enemies'[n].y = enemies[n].y

NoSpriteOfDead ==
  \A k \in 1..Len(cmds) :
    cmds[k].kind = "sprite" => enemies[cmds[k].idx].alive

\* C2: a dead enemy never becomes alive again, never moves again and no
\* sprite is drawn for it in any later iteration.
C2_DeadIsTerminal == [][DeadStays]_vars /\ []NoSpriteOfDead

\* a dead enemy stands in plain view of the player, the enemy loop is over
\* and no sprite was drawn for it
C2_Witness ==
  /\ pc = "flip"
  /\ \E n \in 1..Len(enemies) :
       /\ ~enemies[n].alive
       /\ line_of_sight(player_pos[1], player_pos[2], enemies[n].x, enemies[n].y)
       /\ InView(enemies[n])
       /\ \A k \in 1..Len(cmds) : cmds[k] # [kind |-> "sprite", idx |-> n]

\* ---------------------------------------------------------------- C3
\* the place of a step in the order the claim gives
ClaimedRank(st) ==
  CASE st[1] = "player"  -> 1
    [] st[1] = "combat"  -> 2
    [] st[1] = "advance" -> 3
    [] st[1] = "clear"   -> 4
    [] st[1] = "raycast" -> 4
    [] st[1] = "project" -> 5
    [] st[1] = "present" -> 6

RECURSIVE EnemySteps(_)
EnemySteps(n) ==
  IF n > Len(enemies) THEN << >>
  ELSE (IF enemies[n].alive THEN << <<"advance", n>> >> ELSE << >>)
       \o << <<"project", n>> >> \o EnemySteps(n + 1)

\* the order of the loop body
LoopOrder ==
  << <<"player", 0>>, <<"combat", 0>>, <<"clear", 0>>, <<"raycast", 0>> >>
  \o EnemySteps(1) \o << <<"present", 0>> >>

IsPrefix(a, b) == Len(a) <= Len(b) /\ a = SubSeq(b, 1, Len(a))

PlayerMovesOnlyToWalkable ==
  player_pos' # player_pos =>
    /\ pc = "movement"
    /\ keys \cap {"w", "s"} # {}
    /\ can_move(player_pos'[1], player_pos'[2])

\* C4: the player is always in an in-bounds Empty cell; its position changes
\* only in the movement step, only to a position can_move accepts.
C4_PlayerStaysInEmpty ==
  [](InEmptyCell(player_pos[1], player_pos[2]))
  /\ [][PlayerMovesOnlyToWalkable]_vars

\* a forward move has just been refused: the candidate is not walkable
C4_Witness ==
  /\ pc = "shooting"
  /\ "w" \in keys
  /\ "s" \notin keys
  /\ LET c == MoveCandidate(player_pos, player_angle, 1)
     IN  ~can_move(c[1], c[2])

\* ---------------------------------------------------------------- C5
\* C5: every read of the grid by the ray march is bounds-checked first, and
\* no read is at a negative or too-large index.
C5_MarchReadsAreChecked ==
  lastRead.by = "ray_casting" =>
    /\ lastRead.guarded
    /\ 0 <= lastRead.i /\ lastRead.i < Len(game_map[1])
    /\ 0 <= lastRead.j /\ lastRead.j < Len(game_map)

\* what does hold of the march on this map: no read is out of range and no
\* IndexError is raised
MarchReadsInRange ==
  /\ pc # "IndexError"
  /\ lastRead.by = "ray_casting" =>
       /\ 0 <= lastRead.i /\ lastRead.i < Len(game_map[1])
       /\ 0 <= lastRead.j /\ lastRead.j < Len(game_map)

\* ---------------------------------------------------------------- C6
\* an angle wrapped to (-pi, pi]
WrapPi(d) == IF d % TWO_PI > PI THEN (d % TWO_PI) - TWO_PI ELSE d % TWO_PI

\* the enemy is within 0.1 rad of the heading and nearer than 300
Qualifies(e) ==
  /\ Abs(WrapPi(Atan2(e.y - player_pos[2], e.x - player_pos[1])
                - player_angle)) < HitAngle
  /\ Hypot(e.x - player_pos[1], e.y - player_pos[2]) < HitRange * PosScale

FireKillsExactlyTheQualifying ==
  (pc = "shooting" /\ "space" \in keys) =>
    /\ player_pos' = player_pos
    /\ player_angle' = player_angle
    /\ \A n \in 1..Len(enemies) :
         /\ enemies'[n].x = enemies[n].x
         /\ enemies'[n].y = enemies[n].y
         /\ enemies[n].alive =>
              (~enemies'[n].alive <=> Qualifies(enemies[n]))

\* C6: with fire held, an alive enemy dies in this iteration iff it is within
\* 0.1 rad of the heading and nearer than 300, walls or not; fire moves
\* nothing and turns nothing.
C6_FireKillsExactlyTheQualifying == [][FireKillsExactlyTheQualifying]_vars

\* fire has just killed enemy 1 through a wall and spared enemy 2
C6_Witness ==
  /\ pc = "fill"
  /\ "space" \in keys
  /\ ~enemies[1].alive
  /\ Qualifies(enemies[1])
  /\ ~line_of_sight(player_pos[1], player_pos[2], enemies[1].x, enemies[1].y)
  /\ enemies[2].alive
  /\ ~Qualifies(enemies[2])

\* ---------------------------------------------------------------- C7
KindRank(c) ==
  CASE c.kind = "clear"  -> 0
    [] c.kind = "wall"   -> 1
    [] c.kind = "sprite" -> 2
    [] c.kind = "flip"   -> 3

\* C7: in every iteration the screen receives one clear, then the wall
\* rectangles by strictly increasing column, at most one a column, then the
\* sprite rectangles in roster order, then one flip.
C7_DrawOrder ==
  /\ cmds # << >> => cmds[1].kind = "clear"
  /\ \A k \in 1..(Len(cmds) - 1) :
       /\ KindRank(cmds[k]) <= KindRank(cmds[k + 1])
       /\ cmds[k].kind = cmds[k + 1].kind => cmds[k].idx < cmds[k + 1].idx
       /\ cmds[k + 1].kind = "wall" =>
            /\ cmds[k + 1].idx \in 0..((NUM_RAYS - 1) * SCALE)
            /\ cmds[k + 1].idx % SCALE = 0
       /\ cmds[k + 1].kind = "sprite" => cmds[k + 1].idx \in 1..Len(enemies)
  /\ (pc \in {"keys", "exited"} /\ tick > 0) <=>
       (cmds # << >> /\ cmds[Len(cmds)].kind = "flip")

\* an iteration has ended in which walls and the sprites of both enemies
\* were drawn
C7_Witness ==
  /\ pc = "keys"
  /\ \E k \in 1..Len(cmds) : cmds[k].kind = "wall"
  /\ \E k \in 1..Len(cmds) :
       /\ k + 2 = Len(cmds)
       /\ cmds[k] = [kind |-> "sprite", idx |-> 1]
       /\ cmds[k + 1] = [kind |-> "sprite", idx |-> 2]

\* ---------------------------------------------------------------- C8
BlockedPursuitStalls ==
  ( /\ pc = "enemy_move"
    /\ enemies[eidx].alive
    /\ LET c == PursueCandidate(enemies[eidx])
       IN  ~can_move(c[1], c[2]) )
  => /\ enemies' = enemies
     /\ pc' = "enemy_draw"

\* C8: when the pursue candidate of an alive enemy is not walkable, pursue
\* leaves the enemy where it is and raises nothing, call after call.
C8_BlockedPursuitStalls == [][BlockedPursuitStalls]_vars

\* enemy 2 has been refused in three iterations and is still where it began
C8_Witness ==
  /\ pc = "enemy_draw"
  /\ eidx = 2
  /\ tick >= 2
  /\ enemies[2] = Roster[2]
  /\ LET c == PursueCandidate(enemies[2])
     IN  ~can_move(c[1], c[2])

\* ---------------------------------------------------------------- C9
\* C9: in every reachable state, the initial one included, the player and
\* every alive enemy are in an in-bounds Empty cell.
C9_AllLiveInEmpty ==
  /\ InEmptyCell(player_pos[1], player_pos[2])
  /\ \A n \in 1..Len(enemies) :
       enemies[n].alive => InEmptyCell(enemies[n].x, enemies[n].y)

\* ---------------------------------------------------------------- C10
EnemyMovesOnlyToWalkable ==
  \A n \in 1..Len(enemies) :
    /\ (enemies'[n].x # enemies[n].x \/ enemies'[n].y # enemies[n].y) =>
         /\ pc = "enemy_move"
         /\ n = eidx
         /\ can_move(enemies'[n].x, enemies'[n].y)
         /\ InEmptyCell(enemies'[n].x, enemies'[n].y)
    /\ InEmptyCell(enemies[n].x, enemies[n].y) =>
         InEmptyCell(enemies'[n].x, enemies'[n].y)

\* C10: an enemy's position changes only to a position can_move accepts, in
\* bounds and Empty, so an enemy in an Empty cell stays in Empty cells.
C10_EnemyStaysInEmpty == [][EnemyMovesOnlyToWalkable]_vars

\* enemy 1 has left the wall cell it began in and stands in an Empty cell
C10_Witness ==
  /\ pc = "enemy_draw"
  /\ eidx = 1
  /\ ~InEmptyCell(Roster[1].x, Roster[1].y)
  /\ enemies[1] # Roster[1]
  /\ InEmptyCell(enemies[1].x, enemies[1].y)

====
